---- MODULE Spec2Model ----
(***************************************************************************)
(* Model of update_domains.py: the block-oriented patcher of the glocker   *)
(* configuration file (conf/conf.yaml).                                    *)
(*                                                                         *)
(* The document is the sequence of lines config_content.split('\n').       *)
(* A line is a record standing for one concrete text shape; every text     *)
(* predicate of the source (strip() == '', marker in line, the timestamp   *)
(* regex, ...) is an operator computed from that shape.  Line indices are  *)
(* the 0-based indices of the Python code; At(lines, i) is lines[i].       *)
(***************************************************************************)
EXTENDS Integers, Sequences, FiniteSets, TLC

VARIABLES file, pc, idx, success_count, error_count, skipped_count,
          outcomes, summary, last, prev, ops, cmd, exit_status

vars == <<file, pc, idx, success_count, error_count, skipped_count,
          outcomes, summary, last, prev, ops, cmd, exit_status>>

(***************************************************************************)
(* Bounds of the model                                                     *)
(***************************************************************************)
\* number of command invocations in one behaviour of Spec
MaxOps == 3
\* longest initial document (in lines) of SpecDocs
MaxInitLen == 4
\* longest initial document (in lines) of SpecStrip
MaxStripLen == 5
\* longest fetched entry list of SpecNorm
MaxEntries == 4
\* number of command invocations in one behaviour of SpecMix
MaxMixOps == 2

(***************************************************************************)
(* Program constants                                                       *)
(***************************************************************************)
\* len(SOURCES)
NumSources == 4
\* extract_timestamp_near_marker looks at lines marker_idx .. marker_idx+4
TimestampWindow == 5
\* len('www.')
WwwLen == 4

SOURCES == 1..NumSources

(***************************************************************************)
(* Lines                                                                   *)
(***************************************************************************)
NoText == <<>>

Line(k, s, t, n, d) == [k |-> k, s |-> s, t |-> t, n |-> n, d |-> d]

\* ''
Blank == Line("blank", 0, NoText, 0, NoText)
\* 'domains:'
DomainsKey == Line("domains", 0, NoText, 0, NoText)
\* '  domains:' - a key of that name nested in another section
NestedDomains == Line("nested_domains", 0, NoText, 0, NoText)
\* 'other:' - any other top-level key line
TopKey == Line("top", 0, NoText, 0, NoText)
\* '  key: value' - indented content of another section
Indented == Line("indented", 0, NoText, 0, NoText)
\* '# manual domains: keep' - a hand-written comment (it contains 'domains:')
Comment == Line("comment", 0, NoText, 0, NoText)
\* '  - name: example.com' - first line of an expanded-format entry
Expanded == Line("expanded", 0, NoText, 0, NoText)
\* f"{marker}. Blocked 24/7" for the marker of source s
MarkerLine(s) == Line("marker", s, NoText, 0, NoText)
\* f"# Last updated: {timestamp} ({domain_count} domains)"
MetaLine(t, n) == Line("meta", 0, t, n, NoText)
\* '  - {"name": "<domain>", "absolute": true}'
EntryLine(d) == Line("entry", 0, NoText, 0, d)

\* parse_bon_appetit, parse_stevenblack, parse_hagezi, parse_unblockstop:
\* the four formatters produce the same text
parse_func(s, domain) == EntryLine(domain)

At(lines, i) == lines[i + 1]

\* lines[:i]
Upto(lines, i) == SubSeq(lines, 1, IF i < Len(lines) THEN i ELSE Len(lines))
\* lines[i:]
From(lines, i) == SubSeq(lines, i + 1, Len(lines))

\* line.strip() == ''
IsBlank(l) == l.k = "blank"
\* marker in line, for the marker of source s
HasMarker(l, s) == l.k = "marker" /\ l.s = s
\* line.strip() == 'domains:'
IsDomainsKey(l) == l.k \in {"domains", "nested_domains"}
\* 'domains:' in line
HasDomainsText(l) == l.k \in {"domains", "nested_domains", "comment"}
\* line.strip().startswith('- name:')
IsExpanded(l) == l.k = "expanded"
\* line and not line[0].isspace() and not line.strip().startswith('#')
IsTopLevel(l) == l.k \in {"domains", "top"}

(***************************************************************************)
(* Timestamps are strings, modelled as sequences of characters             *)
(***************************************************************************)
\* the character class [0-9T:\-Z] of the timestamp pattern
TsChars == {"0", "1", "2", "3", "4", "5", "6", "7", "8", "9", "T", ":", "-", "Z"}

RECURSIVE TsPrefixLen(_, _)
\* length of the longest prefix of t, from position i on, inside the class
TsPrefixLen(t, i) ==
    IF i <= Len(t) /\ t[i] \in TsChars THEN TsPrefixLen(t, i + 1) ELSE i - 1

\* re.search(r'# Last updated: ([0-9T:\-Z]+)', line).group(1), NoText if no match
TimestampMatch(l) ==
    IF l.k = "meta" THEN SubSeq(l.t, 1, TsPrefixLen(l.t, 1)) ELSE NoText

RECURSIVE FirstMarker(_, _, _)
FirstMarker(lines, s, i) ==
    IF i >= Len(lines) THEN -1
    ELSE IF HasMarker(At(lines, i), s) THEN i
    ELSE FirstMarker(lines, s, i + 1)

\* variant: the search compares whole lines with the marker ('line == marker');
\* a marker line ends in '. Blocked 24/7', so no line is found
find_marker_position_exact(lines, s) == -1
\* find_marker_position; None is -1
find_marker_position(lines, s) == FirstMarker(lines, s, 0)

Min(a, b) == IF a < b THEN a ELSE b

RECURSIVE FirstTimestamp(_, _, _)
FirstTimestamp(lines, i, stop) ==
    IF i >= stop THEN NoText
    ELSE IF TimestampMatch(At(lines, i)) # NoText THEN TimestampMatch(At(lines, i))
    ELSE FirstTimestamp(lines, i + 1, stop)

\* extract_timestamp_near_marker; None is NoText (a match is never empty)
extract_timestamp_near_marker(lines, s) ==
    LET marker_idx == find_marker_position(lines, s)
    IN  IF marker_idx = -1 THEN NoText
        ELSE FirstTimestamp(lines, marker_idx,
                            Min(marker_idx + TimestampWindow, Len(lines)))

RECURSIVE find_domains_section_end(_, _)
find_domains_section_end(lines, i) ==
    IF i >= Len(lines) THEN Len(lines)
    ELSE IF /\ i + 1 < Len(lines)
            /\ IsBlank(At(lines, i)) /\ IsBlank(At(lines, i + 1))
            /\ i + 2 < Len(lines) /\ IsExpanded(At(lines, i + 2))
         THEN i
    ELSE IF IsTopLevel(At(lines, i)) THEN i
    ELSE find_domains_section_end(lines, i + 1)

RECURSIVE ReplaceEnd_incl(_, _)
\* variant: the replace loop written as the loop of strip_managed_sources, which
\* steps over the first of the two blank lines before it breaks
ReplaceEnd_incl(lines, end_idx) ==
    IF end_idx < Len(lines) - 1
    THEN IF IsBlank(At(lines, end_idx)) /\ IsBlank(At(lines, end_idx + 1))
         THEN end_idx + 1
         ELSE ReplaceEnd_incl(lines, end_idx + 1)
    ELSE end_idx

RECURSIVE ReplaceEnd(_, _)
\* the while loop of update_config_section (replace branch), from end_idx
ReplaceEnd(lines, end_idx) ==
    IF end_idx < Len(lines) - 1
    THEN IF IsBlank(At(lines, end_idx)) /\ IsBlank(At(lines, end_idx + 1))
         THEN end_idx
         ELSE ReplaceEnd(lines, end_idx + 1)
    ELSE end_idx

RECURSIVE StripEnd(_, _)
\* the while loop of strip_managed_sources, from end_idx
StripEnd(lines, end_idx) ==
    IF end_idx < Len(lines) - 1
    THEN IF IsBlank(At(lines, end_idx)) /\ IsBlank(At(lines, end_idx + 1))
         THEN end_idx + 1
         ELSE StripEnd(lines, end_idx + 1)
    ELSE end_idx

RECURSIVE FirstDomainsKey(_, _)
FirstDomainsKey(lines, i) ==
    IF i >= Len(lines) THEN -1
    ELSE IF IsDomainsKey(At(lines, i)) THEN i
    ELSE FirstDomainsKey(lines, i + 1)

\* the lines that '\n'.join(formatted_lines) contributes to the document
JoinedLines(formatted) ==
    IF formatted = <<>> THEN <<Blank>> ELSE formatted

\* new_block of update_config_section, as lines
NewBlock(s, formatted, timestamp, domain_count) ==
    <<MarkerLine(s), MetaLine(timestamp, domain_count), Blank>>
        \o JoinedLines(formatted)

\* update_config_section with a replace that resumes one line after end_idx
update_config_section_off(lines, s, marker_line_idx, formatted, timestamp, domain_count) ==
    LET new_block == NewBlock(s, formatted, timestamp, domain_count)
    IN  IF marker_line_idx # -1
        THEN LET end_idx == ReplaceEnd(lines, marker_line_idx + 1)
             IN  [ok |-> TRUE, start |-> marker_line_idx, end |-> end_idx,
                  spliced |-> new_block,
                  lines |-> Upto(lines, marker_line_idx) \o new_block
                                \o From(lines, end_idx + 1)]
        ELSE LET domains_idx == FirstDomainsKey(lines, 0)
             IN  IF domains_idx = -1
                 THEN [ok |-> FALSE, start |-> -1, end |-> -1,
                       spliced |-> <<>>, lines |-> lines]
                 ELSE LET insert_idx == find_domains_section_end(lines, domains_idx + 1)
                      IN  [ok |-> TRUE, start |-> insert_idx, end |-> insert_idx,
                           spliced |-> <<Blank>> \o new_block,
                           lines |-> Upto(lines, insert_idx) \o <<Blank>>
                                         \o new_block \o From(lines, insert_idx)]

\* update_config_section: ok = FALSE is sys.exit(1) ('domains:' not found)
update_config_section(lines, s, marker_line_idx, formatted, timestamp, domain_count) ==
    LET new_block == NewBlock(s, formatted, timestamp, domain_count)
    IN  IF marker_line_idx # -1
        THEN LET end_idx == ReplaceEnd(lines, marker_line_idx + 1)
             IN  [ok |-> TRUE, start |-> marker_line_idx, end |-> end_idx,
                  spliced |-> new_block,
                  lines |-> Upto(lines, marker_line_idx) \o new_block
                                \o From(lines, end_idx)]
        ELSE LET domains_idx == FirstDomainsKey(lines, 0)
             IN  IF domains_idx = -1
                 THEN [ok |-> FALSE, start |-> -1, end |-> -1,
                       spliced |-> <<>>, lines |-> lines]
                 ELSE LET insert_idx == find_domains_section_end(lines, domains_idx + 1)
                      IN  [ok |-> TRUE, start |-> insert_idx, end |-> insert_idx,
                           spliced |-> <<Blank>> \o new_block,
                           lines |-> Upto(lines, insert_idx) \o <<Blank>>
                                         \o new_block \o From(lines, insert_idx)]

(***************************************************************************)
(* Entries are domain names, modelled as sequences of characters           *)
(***************************************************************************)
Www == <<"w", "w", "w", ".">>

\* domain.startswith('www.')
StartsWithWww(domain) ==
    Len(domain) >= WwwLen /\ SubSeq(domain, 1, WwwLen) = Www

\* the first loop of step 7 testing startswith('www') instead of 'www.'
StripWww_nodot(domain) ==
    IF Len(domain) >= WwwLen - 1 /\ SubSeq(domain, 1, WwwLen - 1) = SubSeq(Www, 1, WwwLen - 1)
    THEN SubSeq(domain, WwwLen + 1, Len(domain)) ELSE domain

\* one iteration of the first loop of step 7 of update_source
StripWww(domain) ==
    IF StartsWithWww(domain) THEN SubSeq(domain, WwwLen + 1, Len(domain)) ELSE domain

\* stripped_domains
stripped_domains(domains) == [i \in 1..Len(domains) |-> StripWww(domains[i])]

RECURSIVE UniqueLoop(_, _, _, _)
\* the second loop of step 7: seen is the set, acc is unique_domains
UniqueLoop(stripped, i, seen, acc) ==
    IF i > Len(stripped) THEN acc
    ELSE IF stripped[i] \notin seen
         THEN UniqueLoop(stripped, i + 1, seen \cup {stripped[i]}, Append(acc, stripped[i]))
         ELSE UniqueLoop(stripped, i + 1, seen, acc)

unique_domains(domains) == UniqueLoop(stripped_domains(domains), 1, {}, <<>>)

\* formatted_lines
formatted_lines(s, domains) ==
    LET u == unique_domains(domains) IN [i \in 1..Len(u) |-> parse_func(s, u[i])]

(***************************************************************************)
(* What the environment does to one run: the read of the config file, the  *)
(* adapter (fetch_func) and the write of the config file.                  *)
(*   read  : "ok" | "fail"          open(CONFIG_FILE, 'r') / f.read()      *)
(*   fetch : "ok"                   the adapter returns (domains, ts, _)   *)
(*           "fetch_error"          fetch_url: sys.exit(1)                 *)
(*           "parse_error"          the adapter's own checks: sys.exit(1)  *)
(*           "decode_error"         content.decode('utf-8') raises         *)
(*                                  UnicodeDecodeError, caught nowhere     *)
(*   write : "ok"                                                          *)
(*           "open_fail"            open(CONFIG_FILE, 'w') raises          *)
(*           "partial"              the file was truncated by open and the *)
(*                                  write failed after wk lines            *)
(***************************************************************************)
Env(read, fetch, domains, timestamp, write, wk) ==
    [read |-> read, fetch |-> fetch, domains |-> domains,
     timestamp |-> timestamp, write |-> write, wk |-> wk]

\* 'domains:' in config_content
HasDomainsSubstring(lines) == \E i \in 1..Len(lines) : HasDomainsText(lines[i])

\* the content of the file after a write that failed after wk lines
PartialFile(new_lines, wk) ==
    IF wk = 0 THEN <<Blank>> ELSE Upto(new_lines, wk)

Outcome(term, reason, exit, newfile, writes, midx, existing, uniq, patch) ==
    [term |-> term, reason |-> reason, exit |-> exit, file |-> newfile,
     writes |-> writes, marker_line_idx |-> midx, existing_timestamp |-> existing,
     unique_domains |-> uniq, start |-> patch.start, end |-> patch.end,
     spliced |-> patch.spliced, new_config |-> patch.lines, removed |-> 0]

NoPatch(lines) == [ok |-> FALSE, start |-> -1, end |-> -1, spliced |-> <<>>, lines |-> lines]

\* steps 6 to 9 with the config file opened for writing before the patch is built
PatchAndWrite_early(stored, s, env, marker_line_idx, existing) ==
    LET uniq  == unique_domains(env.domains)
        patch == update_config_section(stored, s, marker_line_idx,
                     formatted_lines(s, env.domains), env.timestamp, Len(uniq))
    IN  IF marker_line_idx = -1 /\ ~HasDomainsSubstring(stored)
        THEN Outcome("Failed", "SectionNotFound", "exit1", stored, 0,
                     marker_line_idx, existing, <<>>, NoPatch(stored))
        ELSE IF ~patch.ok
        THEN Outcome("Failed", "SectionNotFound", "exit1", <<Blank>>, 1,
                     marker_line_idx, existing, uniq, patch)
        ELSE IF env.write = "ok"
        THEN Outcome("Persisted", "", "return", patch.lines, 1,
                     marker_line_idx, existing, uniq, patch)
        ELSE IF env.write = "open_fail"
        THEN Outcome("Failed", "WriteError", "exit1", stored, 1,
                     marker_line_idx, existing, uniq, patch)
        ELSE Outcome("Failed", "WriteError", "exit1",
                     PartialFile(patch.lines, Min(env.wk, Len(patch.lines) - 1)), 1,
                     marker_line_idx, existing, uniq, patch)

\* steps 6 (after the idempotency check) to 9 of update_source
PatchAndWrite(stored, s, env, marker_line_idx, existing) ==
    LET uniq  == unique_domains(env.domains)
        patch == update_config_section(stored, s, marker_line_idx,
                     formatted_lines(s, env.domains), env.timestamp, Len(uniq))
    IN  IF marker_line_idx = -1 /\ ~HasDomainsSubstring(stored)
        THEN Outcome("Failed", "SectionNotFound", "exit1", stored, 0,
                     marker_line_idx, existing, <<>>, NoPatch(stored))
        ELSE IF ~patch.ok
        THEN Outcome("Failed", "SectionNotFound", "exit1", stored, 0,
                     marker_line_idx, existing, uniq, patch)
        ELSE IF env.write = "ok"
        THEN Outcome("Persisted", "", "return", patch.lines, 1,
                     marker_line_idx, existing, uniq, patch)
        ELSE IF env.write = "open_fail"
        THEN Outcome("Failed", "WriteError", "exit1", stored, 1,
                     marker_line_idx, existing, uniq, patch)
        ELSE Outcome("Failed", "WriteError", "exit1",
                     PartialFile(patch.lines, Min(env.wk, Len(patch.lines) - 1)), 1,
                     marker_line_idx, existing, uniq, patch)

\* update_source(source_id) run on the stored document
update_source(stored, source_id, env) ==
    IF source_id \notin SOURCES
    THEN Outcome("Failed", "UnknownSource", "exit1", stored, 0, -1, NoText, <<>>,
                 NoPatch(stored))
    ELSE IF env.read = "fail"
    THEN Outcome("Failed", "ReadError", "exit1", stored, 0, -1, NoText, <<>>,
                 NoPatch(stored))
    ELSE
      LET marker_line_idx == find_marker_position(stored, source_id)
          existing == IF marker_line_idx # -1
                      THEN extract_timestamp_near_marker(stored, source_id)
                      ELSE NoText
      IN  IF env.fetch = "fetch_error"
          THEN Outcome("Failed", "FetchError", "exit1", stored, 0,
                       marker_line_idx, existing, <<>>, NoPatch(stored))
          ELSE IF env.fetch = "parse_error"
          THEN Outcome("Failed", "AdapterParseError", "exit1", stored, 0,
                       marker_line_idx, existing, <<>>, NoPatch(stored))
          ELSE IF env.fetch = "decode_error"
          THEN Outcome("Failed", "DecodeError", "exception", stored, 0,
                       marker_line_idx, existing, <<>>, NoPatch(stored))
          ELSE IF existing # NoText /\ existing = env.timestamp
          THEN Outcome("UpToDate", "", "return", stored, 0,
                       marker_line_idx, existing, <<>>, NoPatch(stored))
          ELSE PatchAndWrite(stored, source_id, env, marker_line_idx, existing)

\* the loop of step 3 keeping the marker line (lines[:marker_line_idx + 1])
RECURSIVE StripLoop_keep(_, _, _)
StripLoop_keep(lines, s, removed) ==
    IF s > NumSources THEN [lines |-> lines, removed |-> removed]
    ELSE LET marker_line_idx == find_marker_position(lines, s)
         IN  IF marker_line_idx # -1
             THEN LET end_idx == StripEnd(lines, marker_line_idx + 1)
                  IN  StripLoop_keep(Upto(lines, marker_line_idx + 1) \o From(lines, end_idx),
                                     s + 1, removed + 1)
             ELSE StripLoop_keep(lines, s + 1, removed)

\* strip_managed_sources, the loop of step 3 from source s on:
\* removed is the number of entries of removed_sources
RECURSIVE StripLoop(_, _, _)
StripLoop(lines, s, removed) ==
    IF s > NumSources THEN [lines |-> lines, removed |-> removed]
    ELSE LET marker_line_idx == find_marker_position(lines, s)
         IN  IF marker_line_idx # -1
             THEN LET end_idx == StripEnd(lines, marker_line_idx + 1)
                  IN  StripLoop(Upto(lines, marker_line_idx) \o From(lines, end_idx),
                                s + 1, removed + 1)
             ELSE StripLoop(lines, s + 1, removed)

StripOutcome(term, reason, exit, newfile, writes, removed, new_lines) ==
    [term |-> term, reason |-> reason, exit |-> exit, file |-> newfile,
     writes |-> writes, marker_line_idx |-> -1, existing_timestamp |-> NoText,
     unique_domains |-> <<>>, start |-> -1, end |-> -1,
     spliced |-> <<>>, new_config |-> new_lines, removed |-> removed]

\* strip_managed_sources run on the stored document
strip_managed_sources(stored, env) ==
    IF env.read = "fail"
    THEN StripOutcome("Failed", "ReadError", "exit1", stored, 0, 0, stored)
    ELSE LET r == StripLoop(stored, 1, 0)
         IN  IF r.removed = 0
             THEN StripOutcome("NoOp", "", "return", stored, 0, 0, r.lines)
             ELSE IF env.write = "ok"
             THEN StripOutcome("Stripped", "", "return", r.lines, 1, r.removed, r.lines)
             ELSE IF env.write = "open_fail"
             THEN StripOutcome("Failed", "WriteError", "exit1", stored, 1,
                               r.removed, r.lines)
             ELSE StripOutcome("Failed", "WriteError", "exit1",
                               PartialFile(r.lines, Min(env.wk, Len(r.lines) - 1)), 1,
                               r.removed, r.lines)

(***************************************************************************)
(* The program as a state machine: one action per command of main          *)
(*   file           the content of CONFIG_FILE, as lines                   *)
(*   pc             "idle" between commands, "batch" inside the loop of    *)
(*                  update_all_sources                                     *)
(*   idx            the position of that loop in SOURCES (1-based id)      *)
(*   success_count, error_count, skipped_count   its three counters        *)
(*   outcomes       the terminal state of each source of the batch so far  *)
(*   summary        "none" | "printed" | "aborted" for the current batch   *)
(*   last, prev     the last two completed runs (history)                  *)
(*   ops            number of commands started (each specification bounds *)
(*                  it in its next-state relation)                         *)
(*   cmd            the command of the last invocation of main:            *)
(*                  "none" | "update" | "strip" | "all"                    *)
(*   exit_status    the exit status of that process: 0, 1 (sys.exit(1) or  *)
(*                  an uncaught exception), -1 while it is running         *)
(***************************************************************************)
NoEnv == Env("ok", "ok", <<>>, NoText, "ok", 0)

Run(op, src, env, pre, out) ==
    [op |-> op, src |-> src, env |-> env, pre |-> pre, out |-> out]

NoRun == Run("none", 0, NoEnv, <<>>,
             Outcome("none", "", "return", <<>>, 0, -1, NoText, <<>>, NoPatch(<<>>)))

InitRest ==
    /\ pc = "idle"
    /\ idx = 0
    /\ success_count = 0
    /\ error_count = 0
    /\ skipped_count = 0
    /\ outcomes = <<>>
    /\ summary = "none"
    /\ last = NoRun
    /\ prev = NoRun
    /\ ops = 0
    /\ cmd = "none"
    /\ exit_status = -1

\* the exit status of a process whose command ended in the given way
ExitStatus(exit) == IF exit = "return" THEN 0 ELSE 1

\* main with a numeric argument: update_source(source_id)
UpdateOne(source_id, env) ==
    /\ pc = "idle"
    /\ LET out == update_source(file, source_id, env)
       IN  /\ file' = out.file
           /\ last' = Run("update", source_id, env, file, out)
           /\ exit_status' = ExitStatus(out.exit)
    /\ cmd' = "update"
    /\ prev' = last
    /\ ops' = ops + 1
    /\ UNCHANGED <<pc, idx, success_count, error_count, skipped_count,
                   outcomes, summary>>

\* main with 'strip': strip_managed_sources()
StripAll(env) ==
    /\ pc = "idle"
    /\ LET out == strip_managed_sources(file, env)
       IN  /\ file' = out.file
           /\ last' = Run("strip", 0, env, file, out)
           /\ exit_status' = ExitStatus(out.exit)
    /\ cmd' = "strip"
    /\ prev' = last
    /\ ops' = ops + 1
    /\ UNCHANGED <<pc, idx, success_count, error_count, skipped_count,
                   outcomes, summary>>

\* main with 'all': update_all_sources() up to the for statement
UpdateAllStart ==
    /\ pc = "idle"
    /\ pc' = "batch"
    /\ idx' = 1
    /\ success_count' = 0
    /\ error_count' = 0
    /\ skipped_count' = 0
    /\ outcomes' = <<>>
    /\ summary' = "none"
    /\ ops' = ops + 1
    /\ cmd' = "all"
    /\ exit_status' = -1
    /\ UNCHANGED <<file, last, prev>>

\* one iteration of the for loop of update_all_sources: the try statement
\* catches SystemExit only, any other exception leaves the function
UpdateAllStep(env) ==
    /\ pc = "batch"
    /\ idx <= NumSources
    /\ LET out == update_source(file, idx, env)
       IN  /\ file' = out.file
           /\ last' = Run("update", idx, env, file, out)
           /\ outcomes' = Append(outcomes, out.term)
           /\ success_count' = IF out.exit = "return"
                                THEN success_count + 1 ELSE success_count
           /\ skipped_count' = IF out.exit = "exit0"
                                THEN skipped_count + 1 ELSE skipped_count
           /\ error_count' = IF out.exit = "exit1"
                              THEN error_count + 1 ELSE error_count
           /\ IF out.exit = "exception"
              THEN /\ pc' = "idle" /\ summary' = "aborted" /\ idx' = idx
                   /\ exit_status' = ExitStatus(out.exit)
              ELSE /\ pc' = "batch" /\ summary' = summary /\ idx' = idx + 1
                   /\ exit_status' = exit_status
    /\ prev' = last
    /\ UNCHANGED <<ops, cmd>>

\* the summary of update_all_sources, after the loop
UpdateAllSummary ==
    /\ pc = "batch"
    /\ idx > NumSources
    /\ pc' = "idle"
    /\ summary' = "printed"
    /\ exit_status' = 0
    /\ UNCHANGED <<file, idx, success_count, error_count, skipped_count,
                   outcomes, last, prev, ops, cmd>>

(***************************************************************************)
(* Inputs                                                                  *)
(***************************************************************************)
\* timestamps an adapter returns: two ISO8601 stamps (strftime) and the raw
\* date string kept when strptime fails (timestamp = date_str)
T1 == <<"1", "Z">>
T2 == <<"2", "Z">>
TRaw == <<"1", " ", "D">>
Tokens == {T1, T2, TRaw}

\* domain names: 'a', 'b', 'www.a', 'www.b', 'www.www.a', 'www', 'm' (manual)
DomA == <<"a">>
DomB == <<"b">>
DomWA == Www \o DomA
DomWB == Www \o DomB
DomWWA == Www \o Www \o DomA
DomW == <<"w", "w", "w">>
DomM == <<"m">>
Domains == {DomA, DomB, DomWA, DomWB, DomWWA, DomW}

\* fetched entry lists (an adapter exits when its list is empty)
L1 == <<DomA>>
L2 == <<DomWA, DomB, DomA>>
Lists == {L1, L2}

\* all sequences over S of length 0..n
SeqsUpTo(S, n) == UNION {[1..k -> S] : k \in 0..n}

AllLists == SeqsUpTo(Domains, MaxEntries) \ {<<>>}

FetchOk(list, timestamp) == Env("ok", "ok", list, timestamp, "ok", 0)
FetchError == Env("ok", "fetch_error", <<>>, NoText, "ok", 0)
ParseError == Env("ok", "parse_error", <<>>, NoText, "ok", 0)
DecodeError == Env("ok", "decode_error", <<>>, NoText, "ok", 0)
ReadFail == Env("fail", "ok", <<>>, NoText, "ok", 0)
OpenFail(list, timestamp) == Env("ok", "ok", list, timestamp, "open_fail", 0)
WriteFail(list, timestamp, wk) == Env("ok", "ok", list, timestamp, "partial", wk)

\* environments of Spec
EnvsMain == {FetchOk(L1, T1), FetchOk(L2, T2), FetchOk(L1, TRaw), FetchError}

\* environments of SpecDocs
EnvsDocs ==
    {FetchOk(L1, T1), FetchOk(L1, T2), FetchOk(L2, T2), FetchOk(L1, TRaw)}
        \cup {FetchError, ParseError, DecodeError, ReadFail, OpenFail(L1, T2)}
        \cup {WriteFail(L1, T2, wk) : wk \in 0..1}

\* environments of SpecBatch
EnvsBatch ==
    {FetchOk(L1, T1), FetchOk(L1, T2), FetchError, DecodeError, OpenFail(L1, T2)}

\* environments of SpecMix: of its single-source updates, of its batches
EnvsMix == {FetchOk(L1, T1), FetchOk(L2, T2), WriteFail(L2, T2, 1)}
EnvsMixBatch == {FetchOk(L1, T1), FetchOk(L2, T2)}

\* environments of SpecTwice
EnvsTwice == {FetchOk(L1, T1), FetchOk(L2, T2), FetchOk(L1, TRaw)}

\* environments of a strip run
EnvsStrip == {FetchOk(<<>>, NoText), OpenFail(<<>>, NoText),
              WriteFail(<<>>, NoText, 1)}

\* initial documents of Spec and SpecBatch: a head followed by a tail
Heads == {<<DomainsKey, EntryLine(DomM)>>, <<TopKey, Indented>>}
Tails == {<<Blank>>, <<TopKey, Indented, Blank>>,
          <<Blank, Blank, Expanded, Indented, Blank>>,
          <<Blank, Blank, TopKey, Indented, Blank>>}
StructDocs == {h \o t : h \in Heads, t \in Tails}

\* documents as a first-run update of source 1 leaves them
WithBlock(docs) == {update_source(d, 1, FetchOk(L1, T1)).file : d \in docs}

\* documents as first-run updates of source 2 and then of source 1 leave them
WithTwoBlocks(docs) ==
    {update_source(update_source(d, 2, FetchOk(L1, T1)).file, 1, FetchOk(L1, T1)).file :
         d \in docs}

\* initial documents of SpecDocs: every document of 1..MaxInitLen lines
WideLines == {Blank, DomainsKey, NestedDomains, TopKey, Comment, Expanded,
              EntryLine(DomA), MarkerLine(1), MetaLine(T1, 1)}
WideDocs == SeqsUpTo(WideLines, MaxInitLen) \ {<<>>}

\* the sources updated in SpecDocs: one whose marker WideLines has, one without
DocsIds == {1, 2}
\* an argument of main that is an integer but no id of SOURCES
UnknownId == NumSources + 1

\* initial documents of SpecStrip: every document of 1..MaxStripLen lines
\* (the strip tells blank lines, marker lines and other lines apart)
StripLines == {Blank, TopKey, EntryLine(DomA), MarkerLine(1), MarkerLine(2)}
StripDocs == SeqsUpTo(StripLines, MaxStripLen) \ {<<>>}

\* initial documents of SpecTwice: the documents of SpecDocs that have a marker
\* line of source 1
MarkedDocs == {d \in WideDocs : \E i \in 1..Len(d) : HasMarker(d[i], 1)}

\* the document of SpecNorm
NormDoc == <<DomainsKey, EntryLine(DomM), Blank>>

(***************************************************************************)
(* Specifications                                                          *)
(***************************************************************************)
\* sequences of single-source updates and strips
Init == file \in StructDocs /\ InitRest

Next ==
    \/ ops < MaxOps /\ \E source_id \in SOURCES, env \in EnvsMain : UpdateOne(source_id, env)
    \/ ops < MaxOps /\ \E env \in {FetchOk(<<>>, NoText)} : StripAll(env)

Spec == Init /\ [][Next]_vars

\* one update of an arbitrary document
InitDocs == file \in WideDocs /\ InitRest

NextDocs ==
    \/ ops < 1 /\ \E source_id \in DocsIds, env \in EnvsDocs : UpdateOne(source_id, env)
    \/ ops < 1 /\ \E env \in {FetchOk(L1, T1)} : UpdateOne(UnknownId, env)

SpecDocs == InitDocs /\ [][NextDocs]_vars

\* up to two strips of an arbitrary document
InitStrip == file \in StripDocs /\ InitRest

NextStrip == ops < 2 /\ \E env \in EnvsStrip : StripAll(env)

SpecStrip == InitStrip /\ [][NextStrip]_vars

\* one update with an arbitrary fetched list
InitNorm == file = NormDoc /\ InitRest

NextNorm ==
    ops < 1 /\ \E source_id \in SOURCES, list \in AllLists :
                   UpdateOne(source_id, FetchOk(list, T1))

SpecNorm == InitNorm /\ [][NextNorm]_vars

\* batches (update_all_sources)
InitBatch ==
    /\ file \in StructDocs \cup WithBlock(StructDocs) \cup WithTwoBlocks(StructDocs)
    /\ InitRest

NextBatch ==
    \/ ops < 1 /\ UpdateAllStart
    \/ \E env \in EnvsBatch : UpdateAllStep(env)
    \/ UpdateAllSummary

SpecBatch == InitBatch /\ [][NextBatch]_vars

\* sequences of single-source updates, strips and batches
InitMix == file \in StructDocs \cup WithBlock(StructDocs) /\ InitRest

NextMix ==
    \/ ops < MaxMixOps /\ \E source_id \in SOURCES, env \in EnvsMix : UpdateOne(source_id, env)
    \/ ops < MaxMixOps /\ \E env \in {FetchOk(<<>>, NoText)} : StripAll(env)
    \/ ops < MaxMixOps /\ UpdateAllStart
    \/ \E env \in EnvsMixBatch : UpdateAllStep(env)
    \/ UpdateAllSummary

SpecMix == InitMix /\ [][NextMix]_vars

\* up to two updates of one source whose marker the document has
InitTwice == file \in MarkedDocs /\ InitRest

NextTwice == ops < 2 /\ \E env \in EnvsTwice : UpdateOne(1, env)

SpecTwice == InitTwice /\ [][NextTwice]_vars

(***************************************************************************)
(* Vocabulary of the properties                                            *)
(***************************************************************************)
\* number of lines of the document that contain the marker of source s
MarkerCount(lines, s) == Cardinality({i \in 1..Len(lines) : HasMarker(lines[i], s)})

MarkersAtMostOnce(lines) == \A s \in SOURCES : MarkerCount(lines, s) <= 1

NoMarkers(lines) == \A s \in SOURCES : MarkerCount(lines, s) = 0

RECURSIVE EntryRunEnd(_, _)
\* index after the run of entry lines that starts at index i
EntryRunEnd(lines, i) ==
    IF i < Len(lines) /\ At(lines, i).k = "entry" THEN EntryRunEnd(lines, i + 1) ELSE i

\* the block of source s as laid out in the document: marker line, metadata
\* line, blank line, entry lines (the empty sequence if s has no marker line)
BlockOf(lines, s) ==
    LET m  == find_marker_position(lines, s)
        e1 == IF m + 1 < Len(lines) /\ At(lines, m + 1).k = "meta" THEN m + 2 ELSE m + 1
        e2 == IF e1 = m + 2 /\ e1 < Len(lines) /\ IsBlank(At(lines, e1)) THEN e1 + 1 ELSE e1
        e3 == IF e2 = m + 3 THEN EntryRunEnd(lines, e2) ELSE e2
    IN  IF m = -1 THEN <<>> ELSE SubSeq(lines, m + 1, e3)

UpdateDone == last.op = "update"
Persisted == UpdateDone /\ last.out.term = "Persisted"
Inserted == Persisted /\ last.out.marker_line_idx = -1
Replaced == Persisted /\ last.out.marker_line_idx # -1

\* the block an update writes, from its inputs
ExpectedBlock(run) ==
    <<MarkerLine(run.src), MetaLine(run.env.timestamp, Len(run.out.unique_domains)), Blank>>
        \o [i \in 1..Len(run.out.unique_domains) |-> EntryLine(run.out.unique_domains[i])]

(***************************************************************************)
(* C1 - Idempotence of update_source: when update_source is run twice for  *)
(* the same source and the adapter returns the same freshness token both   *)
(* times, the second run takes the UpToDate path, performs no write, and   *)
(* the stored document is identical to the document after the first run.   *)
(***************************************************************************)
SameTokenTwice ==
    /\ last.op = "update" /\ prev.op = "update"
    /\ last.src = prev.src
    /\ prev.env.fetch = "ok" /\ last.env.fetch = "ok"
    /\ prev.env.timestamp = last.env.timestamp
    /\ prev.out.term \in {"Persisted", "UpToDate"}

C1_Idempotence ==
    SameTokenTwice =>
        /\ last.out.term = "UpToDate"
        /\ last.out.writes = 0
        /\ file = prev.out.file

(***************************************************************************)
(* C2 - Updating one source never removes or alters another source's       *)
(* block: every block of a different source that was in the document       *)
(* before an update is still present afterwards with the same lines.       *)
(***************************************************************************)
C2_OtherBlocksKept ==
    UpdateDone =>
        \A o \in SOURCES \ {last.src} :
            find_marker_position(last.pre, o) # -1 =>
                /\ find_marker_position(file, o) # -1
                /\ BlockOf(file, o) = BlockOf(last.pre, o)

(***************************************************************************)
(* C3 - Isolation of a patch: the document written by a replace or an      *)
(* insert is D[0:start], then the new block lines, then D[end:], where     *)
(* start is the marker line and end the scanned block end for a replace,   *)
(* and start = end = the insertion index for an insert; every line of D    *)
(* outside [start, end) is kept verbatim and in its original order.        *)
(***************************************************************************)
C3_PatchIsolation ==
    Persisted =>
        LET D     == last.pre
            start == last.out.start
            end   == last.out.end
            new   == IF last.out.marker_line_idx = -1
                     THEN <<Blank>> \o ExpectedBlock(last)
                     ELSE ExpectedBlock(last)
        IN  /\ 0 <= start /\ start <= end /\ end <= Len(D)
            /\ last.out.marker_line_idx = -1 => start = end
            /\ last.out.marker_line_idx # -1 =>
                   start = last.out.marker_line_idx /\ HasMarker(At(D, start), last.src)
            /\ Len(file) = start + Len(new) + (Len(D) - end)
            /\ \A i \in 0..(start - 1) : At(file, i) = At(D, i)
            /\ \A i \in 0..(Len(new) - 1) : At(file, start + i) = At(new, i)
            /\ \A i \in end..(Len(D) - 1) : At(file, start + Len(new) + (i - end)) = At(D, i)

\* a replace that keeps lines on both sides of the replaced range
C3_Witness_Replace ==
    Replaced /\ last.out.start > 0 /\ last.out.end < Len(last.pre)
        /\ last.out.end > last.out.start + 1

\* an insert in the middle of the document
C3_Witness_Insert ==
    Inserted /\ last.out.start > 1 /\ last.out.start < Len(last.pre)

(***************************************************************************)
(* C4 - Strip correctness: on a document in which each registry marker     *)
(* occurs at most once, strip_managed_sources leaves no registry marker    *)
(* and removes only lines of managed blocks: every line outside any        *)
(* managed block is in the result, verbatim and in the same order.         *)
(* A managed block runs from its marker line to the first two consecutive  *)
(* blank lines, the next top-level section line or the document end.       *)
(***************************************************************************)
RECURSIVE SpecBlockEnd(_, _)
SpecBlockEnd(lines, i) ==
    IF i >= Len(lines) THEN Len(lines)
    ELSE IF i + 1 < Len(lines) /\ IsBlank(At(lines, i)) /\ IsBlank(At(lines, i + 1)) THEN i
    ELSE IF IsTopLevel(At(lines, i)) THEN i
    ELSE SpecBlockEnd(lines, i + 1)

InManagedBlock(lines, i) ==
    \E s \in SOURCES :
        LET m == find_marker_position(lines, s)
        IN  m # -1 /\ m <= i /\ i < SpecBlockEnd(lines, m + 1)

RECURSIVE OutsideFrom(_, _)
\* the non-blank lines outside every managed block, from index i on
OutsideFrom(lines, i) ==
    IF i >= Len(lines) THEN <<>>
    ELSE IF IsBlank(At(lines, i)) \/ InManagedBlock(lines, i) THEN OutsideFrom(lines, i + 1)
    ELSE <<At(lines, i)>> \o OutsideFrom(lines, i + 1)

NonBlank(lines) == SelectSeq(lines, LAMBDA l : ~IsBlank(l))

RECURSIVE IsSubsequence(_, _)
\* the lines of a occur in b, in the same order
IsSubsequence(a, b) ==
    IF a = <<>> THEN TRUE
    ELSE IF b = <<>> THEN FALSE
    ELSE IF Head(a) = Head(b) THEN IsSubsequence(Tail(a), Tail(b))
    ELSE IsSubsequence(a, Tail(b))

StripDone == last.op = "strip"
Stripped == StripDone /\ last.out.term = "Stripped"

C4_StripCorrectness ==
    (Stripped /\ MarkersAtMostOnce(last.pre)) =>
        /\ NoMarkers(file)
        /\ IsSubsequence(OutsideFrom(last.pre, 0), NonBlank(file))

(***************************************************************************)
(* C5 - Batch isolation: whatever way one source's update fails inside     *)
(* update_all_sources, the batch is not aborted: every source of the       *)
(* registry is processed and the summary is produced.                      *)
(***************************************************************************)
BatchOver == ops > 0 /\ pc = "idle"

C5_BatchIsolation ==
    BatchOver => (summary = "printed" /\ Len(outcomes) = NumSources)

(***************************************************************************)
(* C6 - Batch summary tally: at the end of update_all_sources the three    *)
(* counts sum to the number of registry entries and each source is         *)
(* counted in the bucket of its terminal state: Persisted as succeeded,    *)
(* UpToDate as up to date, Failed as failed.                               *)
(***************************************************************************)
CountTerm(terms, t) == Cardinality({i \in 1..Len(terms) : terms[i] = t})

C6_SummaryTally ==
    summary = "printed" =>
        /\ success_count + skipped_count + error_count = NumSources
        /\ success_count = CountTerm(outcomes, "Persisted")
        /\ skipped_count = CountTerm(outcomes, "UpToDate")
        /\ error_count = CountTerm(outcomes, "Failed")

(***************************************************************************)
(* C7 - No partial persist: one update writes the stored document at most  *)
(* once, only in the step that leads to Persisted and only with the fully  *)
(* reassembled document; an update that ends UpToDate, or Failed by a      *)
(* fetch error, an adapter parse error or a missing section, leaves the    *)
(* stored document identical to the document before the update.            *)
(***************************************************************************)
NoWriteReasons == {"FetchError", "AdapterParseError", "DecodeError", "SectionNotFound"}

C7_NoPartialPersist ==
    UpdateDone =>
        /\ last.out.writes <= 1
        /\ last.out.writes = 1 =>
               \/ last.out.term = "Persisted"
               \/ last.out.term = "Failed" /\ last.out.reason = "WriteError"
        /\ last.out.term = "Persisted" =>
               /\ last.out.writes = 1
               /\ file = Upto(last.pre, last.out.start) \o last.out.spliced
                             \o From(last.pre, last.out.end)
               /\ last.out.spliced \in {ExpectedBlock(last), <<Blank>> \o ExpectedBlock(last)}
        /\ (\/ last.out.term = "UpToDate"
            \/ last.out.term = "Failed" /\ last.out.reason \in NoWriteReasons) =>
               /\ last.out.writes = 0
               /\ file = last.pre

\* the section check of update_config_section fails after the entries were
\* normalised and formatted ('domains:' occurs in the text, but not as a line)
C7_Witness ==
    /\ UpdateDone /\ last.out.term = "Failed" /\ last.out.reason = "SectionNotFound"
    /\ HasDomainsSubstring(last.pre)
    /\ Len(last.out.unique_domains) > 0

(***************************************************************************)
(* C8 - Strip is idempotent and writes only on change: after a strip of a  *)
(* document in which each registry marker occurs at most once, a second    *)
(* strip finds no managed block, reports a no-op, performs no write and    *)
(* leaves the document identical; a strip that finds no registry marker    *)
(* never writes the file.                                                  *)
(***************************************************************************)
StripTwice ==
    /\ last.op = "strip" /\ prev.op = "strip"
    /\ prev.out.term \in {"Stripped", "NoOp"}
    /\ MarkersAtMostOnce(prev.pre)
    /\ last.env.read = "ok"

C8_StripIdempotent ==
    /\ StripTwice =>
           /\ last.out.term = "NoOp"
           /\ last.out.removed = 0
           /\ last.out.writes = 0
           /\ file = prev.out.file
    /\ (StripDone /\ NoMarkers(last.pre)) =>
           /\ last.out.writes = 0
           /\ file = last.pre

\* the first strip removed the blocks of two sources, the second ran after it
C8_Witness == StripTwice /\ prev.out.removed = 2 /\ Len(file) > 0

(***************************************************************************)
(* C9 - Insert-then-locate round trip: after an insert, find_marker_       *)
(* position returns the insertion index + 1 and the replace-time boundary  *)
(* scan from that marker ends at the end of the block as inserted          *)
(* (insertion index + 1 + number of block lines).                          *)
(***************************************************************************)
C9_InsertRoundTrip ==
    Inserted =>
        LET m == find_marker_position(file, last.src)
        IN  /\ m = last.out.start + 1
            /\ ReplaceEnd(file, m + 1) = last.out.start + 1 + Len(ExpectedBlock(last))

(***************************************************************************)
(* C10 - Normalization in update_source: the normalized list is the        *)
(* fetched list with one leading 'www.' removed from each entry that has   *)
(* it and then duplicates removed, first occurrence kept, order            *)
(* preserved; [www.a, a, b, www.a] yields [a, b]; the result has no        *)
(* duplicates and one formatted line is written per normalized entry.      *)
(***************************************************************************)
\* the entry without one leading 'www.'
WithoutWww(d) ==
    IF Len(d) >= 4 /\ d[1] = "w" /\ d[2] = "w" /\ d[3] = "w" /\ d[4] = "."
    THEN [i \in 1..(Len(d) - 4) |-> d[i + 4]]
    ELSE d

\* u is the list S without the later occurrences of each element
IsFirstOccurrences(u, S) ==
    LET K == {i \in 1..Len(S) : \A j \in 1..(i - 1) : S[j] # S[i]}
    IN  /\ Len(u) = Cardinality(K)
        /\ \A i \in K : u[Cardinality({j \in K : j <= i})] = S[i]

ExampleList == <<DomWA, DomA, DomB, DomWA>>

C10_Normalization ==
    Persisted =>
        LET input == last.env.domains
            u     == last.out.unique_domains
            S     == [i \in 1..Len(input) |-> WithoutWww(input[i])]
            block == BlockOf(file, last.src)
        IN  /\ IsFirstOccurrences(u, S)
            /\ \A i, j \in 1..Len(u) : u[i] = u[j] => i = j
            /\ input = ExampleList => u = <<DomA, DomB>>
            /\ Len(block) = 3 + Len(u)
            /\ block[2] = MetaLine(last.env.timestamp, Len(u))
            /\ \A i \in 1..Len(u) : block[3 + i] = EntryLine(u[i])

C10_Witness ==
    Persisted /\ last.env.domains = ExampleList
        /\ last.out.unique_domains = <<DomA, DomB>>

(***************************************************************************)
(* C11 - SectionNotFound: when the document contains neither a block for   *)
(* the source's marker nor the top-level 'domains:' section line, a        *)
(* single-source update (whose fetch succeeded) ends in failure            *)
(* (SectionNotFound, non-zero exit) and the stored document is unchanged;  *)
(* the insert never places a block in a document lacking that section.     *)
(***************************************************************************)
\* the document has the line 'domains:' at top level (no indentation)
HasTopLevelDomains(lines) == \E i \in 1..Len(lines) : lines[i] = DomainsKey

C11_SectionNotFound ==
    /\ (/\ UpdateDone /\ cmd = "update" /\ last.src \in SOURCES
        /\ last.env.read = "ok" /\ last.env.fetch = "ok"
        /\ MarkerCount(last.pre, last.src) = 0
        /\ ~HasTopLevelDomains(last.pre)) =>
           /\ last.out.term = "Failed"
           /\ last.out.reason = "SectionNotFound"
           /\ exit_status # 0
           /\ file = last.pre
    /\ Inserted => HasTopLevelDomains(last.pre)

(***************************************************************************)
(* C12 - Exit status: a single-source invocation whose update fails        *)
(* (unknown source id, unreadable config, fetch or adapter error, missing  *)
(* section, write error) terminates with a non-zero exit, while an 'all'   *)
(* invocation terminates with exit status zero even when one or more       *)
(* sources failed.                                                         *)
(***************************************************************************)
\* a single-source invocation has ended
SingleOver == cmd = "update" /\ last.op = "update"
\* an 'all' invocation has ended
AllOver == cmd = "all" /\ pc = "idle"

C12_ExitStatus ==
    /\ (SingleOver /\ last.out.term = "Failed") => exit_status # 0
    /\ AllOver => exit_status = 0

(***************************************************************************)
(* C13 - Block end at the next top-level section: when an existing block   *)
(* is replaced or stripped, the forward scan from the marker line ends at  *)
(* the first line that is non-blank, not comment-prefixed and not indented *)
(* (exclusive), if that line comes before any two consecutive blank lines; *)
(* therefore no line of a following top-level section is ever inside the   *)
(* replaced or removed range.                                              *)
(***************************************************************************)
\* the top-level lines of the document, in order
TopLevelLines(lines) == SelectSeq(lines, IsTopLevel)

\* index of the first top-level line at or after index i that comes before
\* any two consecutive blank lines, -1 if there is none
NextTopLevel(lines, i) ==
    LET e == SpecBlockEnd(lines, i)
    IN  IF e < Len(lines) /\ IsTopLevel(At(lines, e)) THEN e ELSE -1

C13_EndAtTopLevel ==
    /\ Replaced =>
           /\ NextTopLevel(last.pre, last.out.marker_line_idx + 1) # -1 =>
                  last.out.end = NextTopLevel(last.pre, last.out.marker_line_idx + 1)
           /\ \A i \in last.out.start .. (last.out.end - 1) :
                  ~IsTopLevel(At(last.pre, i))
    /\ Stripped => TopLevelLines(file) = TopLevelLines(last.pre)

(***************************************************************************)
(* C14 - Block end at document end: when an existing block is the last     *)
(* thing in the document and the scan from its marker finds neither two    *)
(* consecutive blank lines nor a top-level section line, the computed end  *)
(* is the document length, so after a replace or a strip no line of the    *)
(* old block (including its last entry line) remains in the document.      *)
(***************************************************************************)
\* the scan from the line after the marker at index m reaches the end of
\* the document: no two consecutive blank lines, no top-level line
BlockIsLast(lines, m) == SpecBlockEnd(lines, m + 1) = Len(lines)

C14_EndAtDocumentEnd ==
    /\ (Replaced /\ BlockIsLast(last.pre, last.out.marker_line_idx)) =>
           /\ last.out.end = Len(last.pre)
           /\ file = Upto(last.pre, last.out.marker_line_idx) \o ExpectedBlock(last)
    /\ \A s \in SOURCES :
           (/\ Stripped /\ MarkerCount(last.pre, s) = 1
            /\ \A t \in SOURCES \ {s} : MarkerCount(last.pre, t) = 0
            /\ BlockIsLast(last.pre, find_marker_position(last.pre, s))) =>
               file = Upto(last.pre, find_marker_position(last.pre, s))

WrittenAt(run) ==
    IF run.out.marker_line_idx = -1 THEN run.out.start + 1 ELSE run.out.start

C16_BlockLayout ==
    Persisted =>
        LET m == WrittenAt(last)
            u == last.out.unique_domains
        IN  /\ m + 3 + Len(u) <= Len(file)
            /\ HasMarker(At(file, m), last.src)
            /\ find_marker_position(file, last.src) = m
            /\ At(file, m + 1) = MetaLine(last.env.timestamp, Len(u))
            /\ IsBlank(At(file, m + 2))
            /\ \A i \in 1..Len(u) : At(file, m + 2 + i) = parse_func(last.src, u[i])
            /\ EntryRunEnd(file, m + 3) = m + 3 + Len(u)

(***************************************************************************)
(* C17 - Insert placement: on a first-run update (marker absent), the      *)
(* section is located as the first line that is exactly the top-level key  *)
(* line 'domains:', and a blank separator line followed by the new block   *)
(* is spliced in just before the end of that section, i.e. the new marker  *)
(* line lies after the 'domains:' line and before the first later          *)
(* top-level section line (or before two blank lines that are followed by  *)
(* an expanded '- name:' entry, or at document end).                       *)
(***************************************************************************)
\* index of the first line that is exactly 'domains:', -1 if there is none
SectionStart(lines) ==
    IF HasTopLevelDomains(lines)
    THEN (CHOOSE i \in 1..Len(lines) :
              /\ lines[i] = DomainsKey
              /\ \A j \in 1..(i - 1) : lines[j] # DomainsKey) - 1
    ELSE -1

\* index e is an end of a section: a top-level line, two blank lines followed
\* by an expanded entry, or the end of the document
IsSectionEnd(lines, e) ==
    \/ e = Len(lines)
    \/ e < Len(lines) /\ IsTopLevel(At(lines, e))
    \/ /\ e + 2 < Len(lines)
       /\ IsBlank(At(lines, e)) /\ IsBlank(At(lines, e + 1))
       /\ IsExpanded(At(lines, e + 2))

\* the end of the section that starts at index d
SectionEnd(lines, d) ==
    CHOOSE e \in (d + 1)..Len(lines) :
        /\ IsSectionEnd(lines, e)
        /\ \A j \in (d + 1)..(e - 1) : ~IsSectionEnd(lines, j)

C17_InsertPlacement ==
    (Inserted /\ HasTopLevelDomains(last.pre)) =>
        LET d == SectionStart(last.pre)
        IN  /\ last.out.start = SectionEnd(last.pre, d)
            /\ file = Upto(last.pre, last.out.start) \o <<Blank>>
                          \o ExpectedBlock(last) \o From(last.pre, last.out.start)
            /\ find_marker_position(file, last.src) > d

(***************************************************************************)
(* C18 - Per-source state machine: every run of update_source ends in      *)
(* exactly one of UpToDate, Persisted or Failed; it ends UpToDate if and   *)
(* only if a block for the marker already exists and its stored freshness  *)
(* token equals the fetched token; a first-run update (no block) never     *)
(* ends UpToDate, and an update whose stored token is absent or different  *)
(* always goes on to Normalizing, Formatting and Patching.                 *)
(***************************************************************************)
\* the freshness token stored in the block of source s: the token of the
\* metadata line after the marker line, NoText if there is none
StoredToken(lines, s) ==
    LET m == find_marker_position(lines, s)
    IN  IF m # -1 /\ m + 1 < Len(lines) /\ At(lines, m + 1).k = "meta"
        THEN At(lines, m + 1).t
        ELSE NoText

\* the run went on to patch the document: it ended Persisted or with one of the
\* failures of the patch (SectionNotFound, also when it is found missing by the
\* check made ahead of the normalizing step, or WriteError)
ReachedPatching(run) ==
    \/ /\ run.out.term = "Persisted"
       /\ run.out.unique_domains = unique_domains(run.env.domains)
    \/ /\ run.out.term = "Failed"
       /\ run.out.reason \in {"SectionNotFound", "WriteError"}

C18_StateMachine ==
    UpdateDone =>
        /\ last.out.term \in {"UpToDate", "Persisted", "Failed"}
        /\ (last.src \in SOURCES /\ last.env.read = "ok" /\ last.env.fetch = "ok") =>
               LET hasBlock == MarkerCount(last.pre, last.src) >= 1
                   same     == StoredToken(last.pre, last.src) = last.env.timestamp
               IN  /\ last.out.term = "UpToDate" <=> (hasBlock /\ same)
                   /\ ~hasBlock => last.out.term # "UpToDate"
                   /\ ~(hasBlock /\ same) => ReachedPatching(last)
        /\ ~(last.src \in SOURCES /\ last.env.read = "ok" /\ last.env.fetch = "ok") =>
               last.out.term = "Failed"

(***************************************************************************)
(* C19 - Strip leaves no growing gap: for a document with a 'domains:'     *)
(* section and no managed blocks, a first-run update of one source         *)
(* followed by strip_managed_sources yields a document with the same       *)
(* number of lines as before the update (the separator added by the insert *)
(* and the trailing blank swallowed by the strip cancel out), so repeated   *)
(* update-then-strip cycles do not grow the document.                      *)
(***************************************************************************)
\* a strip has run right after a first-run update of a document that had a
\* 'domains:' section and no managed block
UpdateThenStrip ==
    /\ StripDone /\ last.out.term = "Stripped"
    /\ prev.op = "update" /\ prev.out.term = "Persisted"
    /\ prev.out.marker_line_idx = -1
    /\ HasTopLevelDomains(prev.pre) /\ NoMarkers(prev.pre)
    /\ last.pre = prev.out.file

C19_NoGrowingGap == UpdateThenStrip => Len(file) = Len(prev.pre)

(***************************************************************************)
(* C20 - Sequential batch: in update_all_sources the sources are processed *)
(* in registry order and source i reaches its terminal state (including    *)
(* its write, if any) before source i+1 reads the document, so each source *)
(* patches the document as persisted by the previous ones; after a batch   *)
(* on a document with a 'domains:' section, every source that ended        *)
(* Persisted or UpToDate has its marker present exactly once in the final  *)
(* document.                                                               *)
(***************************************************************************)
\* number of sources of the current batch that have reached a terminal state
BatchDone == Len(outcomes)

C20_SequentialBatch ==
    /\ (cmd = "all" /\ BatchDone >= 1) =>
           /\ last.op = "update" /\ last.src = BatchDone
           /\ outcomes[BatchDone] = last.out.term
           /\ file = last.out.file
    /\ (cmd = "all" /\ BatchDone >= 2) =>
           /\ prev.src = BatchDone - 1
           /\ last.pre = prev.out.file
    /\ (AllOver /\ summary = "printed") =>
           \A s \in 1..BatchDone :
               outcomes[s] \in {"Persisted", "UpToDate"} => MarkerCount(file, s) = 1

(***************************************************************************)
(* C21 - Successive replacements compose: for every document with an       *)
(* existing block for marker M (a marker line followed by at least one     *)
(* more line) and any two new blocks b1 and b2 with at least one entry     *)
(* each, replacing M's block with b1 and then with b2 yields the same      *)
(* document as replacing it directly with b2; in particular the lines that *)
(* follow the block (the terminating blank lines and everything after) are *)
(* identical after any number of replacements.                             *)
(***************************************************************************)
\* the last two runs replaced the block of the same source, one after the other
ReplacedTwice ==
    /\ Replaced
    /\ prev.op = "update" /\ prev.out.term = "Persisted"
    /\ prev.out.marker_line_idx # -1
    /\ prev.src = last.src
    /\ last.pre = prev.out.file
    /\ prev.out.marker_line_idx + 1 < Len(prev.pre)

\* the document with the block of run one replaced directly by the block of run two
DirectReplace(one, two) ==
    update_config_section(one.pre, two.src, one.out.marker_line_idx,
                          formatted_lines(two.src, two.env.domains),
                          two.env.timestamp,
                          Len(unique_domains(two.env.domains))).lines

\* the lines of the document that follow the block a replace has written
AfterBlock(run) == From(run.out.file, run.out.start + Len(run.out.spliced))

====
